---- MODULE Spec2Model ----
(***************************************************************************)
(* Model of cytogis.GISManager (src/src/cytogis/gismanager.py): loading    *)
(* a Cytoscape graph and a coordinate table, and turning them into GeoJSON *)
(* Point and LineString feature collections.                               *)
(*                                                                         *)
(* Representation conventions:                                             *)
(*  - a Python dict is a function whose DOMAIN is the set of its keys;     *)
(*    d[k] on a missing key is KeyError, d.get(k) on a missing key is None *)
(*  - a numeric string (node lat/lng, a table cell) is a sequence of       *)
(*    one-character strings, so that lstrip and float act on characters    *)
(*  - a float is [int |-> n, frac |-> fractional digits without trailing   *)
(*    zeros]                                                               *)
(*  - a call's outcome is Ok(value) or Err(exception name)                 *)
(*  - a missing cell of the coordinate table (NaN) is a key that the row   *)
(*    lacks although the table has the column                              *)
(***************************************************************************)
EXTENDS Integers, Sequences, FiniteSets, TLC

VARIABLES phase, attempts, config, cyto_doc, coord_table,
          list_of_nodes, list_of_edges, coordinates_data, unique_locations,
          nodes_result, edges_result

vars == <<phase, attempts, config, cyto_doc, coord_table,
          list_of_nodes, list_of_edges, coordinates_data, unique_locations,
          nodes_result, edges_result>>

\* ------------------------------------------------------------------ bounds
MaxNodes == 2
MaxEdges == 3
MaxRows == 2
MaxAttempts == 2

\* --------------------------------------------------------- call outcomes
Ok(v) == [ok |-> TRUE, value |-> v]
Err(e) == [ok |-> FALSE, error |-> e]
NotCalled == Err("NotCalled")

None == "None"
Has(d, k) == k \in DOMAIN d
Get(d, k) == IF Has(d, k) THEN d[k] ELSE None

SeqsUpTo(S, n) == UNION {[1..k -> S] : k \in 0..n}

\* ------------------------------------------------------- strings, floats
UNDEFINED == <<"u", "n", "d", "e", "f", "i", "n", "e", "d">>
Digits == {"0", "1", "2", "3", "4", "5", "6", "7", "8", "9"}
DigitVal(c) == CASE c = "0" -> 0 [] c = "1" -> 1 [] c = "2" -> 2 [] c = "3" -> 3
                 [] c = "4" -> 4 [] c = "5" -> 5 [] c = "6" -> 6 [] c = "7" -> 7
                 [] c = "8" -> 8 [] c = "9" -> 9

RECURSIVE lstrip(_, _)
lstrip(s, c) == IF s # <<>> /\ Head(s) = c THEN lstrip(Tail(s), c) ELSE s

RECURSIVE rstrip(_, _)
rstrip(s, c) == IF s # <<>> /\ s[Len(s)] = c THEN rstrip(SubSeq(s, 1, Len(s) - 1), c) ELSE s

RECURSIVE IntValue(_)
IntValue(s) == IF s = <<>> THEN 0 ELSE 10 * IntValue(SubSeq(s, 1, Len(s) - 1)) + DigitVal(s[Len(s)])

DotAt(s) == IF \E i \in 1..Len(s) : s[i] = "."
            THEN CHOOSE i \in 1..Len(s) : s[i] = "." /\ \A j \in 1..(i - 1) : s[j] # "."
            ELSE Len(s) + 1
IntPart(s) == SubSeq(s, 1, DotAt(s) - 1)
FracPart(s) == SubSeq(s, DotAt(s) + 1, Len(s))
AllDigits(s) == \A i \in 1..Len(s) : s[i] \in Digits

\* float(str) for unsigned decimal literals: digits with at most one ".",
\* at least one digit; anything else raises ValueError
float(s) == IF AllDigits(IntPart(s)) /\ AllDigits(FracPart(s)) /\ Len(IntPart(s)) + Len(FracPart(s)) > 0
            THEN Ok([int |-> IntValue(IntPart(s)), frac |-> rstrip(FracPart(s), "0")])
            ELSE Err("ValueError")

\* --------------------------------------------- features (GeoJSON objects)
Feature(type, coordinates, properties) ==
    [type |-> "Feature",
     geometry |-> [type |-> type, coordinates |-> coordinates],
     properties |-> properties]
FeatureCollection == <<>>
add_feature(collection, feature) == Append(collection, feature)

\* ------------------------------------------------------------ config
\* truthiness of self.config.get(key) for an optional boolean option
ConfigFlag(cfg, key) == Has(cfg, key) /\ cfg[key] = TRUE
\* truthiness of self.config.get(key) for an optional list option
ConfigList(cfg, key) == Has(cfg, key) /\ cfg[key] # {}

\* ------------------------------------------------ create_features_nodes
NodeIdentifier(cfg) == IF ConfigFlag(cfg, "processed") THEN "id_original" ELSE "id"

\* node["data"].get("lat") and node["data"].get("lat") != "undefined"
HasLatitude(data) == Has(data, "lat") /\ data["lat"] # <<>> /\ data["lat"] # UNDEFINED

\* the filter for properties that should be dropped; without a non-empty
\* node_props_drop the loop is not entered and the dict stays empty
NodeProperties(cfg, data) ==
    IF ConfigList(cfg, "node_props_drop")
    THEN [key \in DOMAIN data \ cfg["node_props_drop"] |-> data[key]]
    ELSE [key \in {} |-> None]

\* {"name": ..., "connections": None, **node_properties}: later keys win
PointProperties(name, node_properties) ==
    [key \in {"name", "connections"} \cup DOMAIN node_properties |->
        IF key \in DOMAIN node_properties THEN node_properties[key]
        ELSE IF key = "name" THEN name ELSE None]

PointFeature(cfg, data) ==
    IF ~Has(data, "lng") THEN Err("KeyError")
    ELSE LET lng == float(lstrip(data["lng"], "0"))
             lat == float(lstrip(data["lat"], "0"))
         IN  IF ~lng.ok THEN lng
             ELSE IF ~lat.ok THEN lat
             ELSE IF ~Has(data, NodeIdentifier(cfg)) THEN Err("KeyError")
             ELSE Ok(Feature("Point", <<lng.value, lat.value>>,
                             PointProperties(data[NodeIdentifier(cfg)], NodeProperties(cfg, data))))

RECURSIVE NodesLoop(_, _, _)
NodesLoop(cfg, nodes, collection) ==
    IF nodes = <<>> THEN Ok(collection)
    ELSE IF HasLatitude(Head(nodes).data)
         THEN LET feature == PointFeature(cfg, Head(nodes).data)
              IN  IF feature.ok
                  THEN NodesLoop(cfg, Tail(nodes), add_feature(collection, feature.value))
                  ELSE feature
         ELSE NodesLoop(cfg, Tail(nodes), collection)

CreateFeaturesNodes(cfg, nodes) == NodesLoop(cfg, nodes, FeatureCollection)

\* ----------------------------------------------------- _get_connections
\* all_edges is an insertion-ordered dict: a sequence of
\* [source, targets], one entry per key, in order of first insertion
KeyIndex(all_edges, source) ==
    IF \E i \in 1..Len(all_edges) : all_edges[i].source = source
    THEN CHOOSE i \in 1..Len(all_edges) : all_edges[i].source = source
    ELSE 0

\* AddConnection, had a repeated source replaced its list
\* (all_edges[source] = [target_city]) instead of appending to it
AddConnection_overwriting(all_edges, source, target_city) ==
    IF KeyIndex(all_edges, source) # 0
    THEN [all_edges EXCEPT ![KeyIndex(all_edges, source)].targets = <<target_city>>]
    ELSE Append(all_edges, [source |-> source, targets |-> <<target_city>>])

AddConnection(all_edges, source, target_city) ==
    IF KeyIndex(all_edges, source) # 0
    THEN [all_edges EXCEPT ![KeyIndex(all_edges, source)].targets = Append(@, target_city)]
    ELSE Append(all_edges, [source |-> source, targets |-> <<target_city>>])

RECURSIVE ConnectionsLoop(_, _, _)
ConnectionsLoop(edges, processed, all_edges) ==
    IF edges = <<>> THEN Ok(all_edges)
    ELSE LET data == Head(edges).data
         IN  IF ~processed /\ ~(Has(data, "source") /\ Has(data, "target")) THEN Err("KeyError")
             ELSE IF ~Has(data, "weight") THEN Err("KeyError")
             ELSE LET source == IF processed THEN Get(data, "source_original") ELSE data["source"]
                      target == IF processed THEN Get(data, "target_original") ELSE data["target"]
                      target_city == [key \in {target} |-> data["weight"]]
                  IN  ConnectionsLoop(Tail(edges), processed, AddConnection(all_edges, source, target_city))

_get_connections(edges, processed) == ConnectionsLoop(edges, processed, <<>>)

\* --------------------------------------------------- coordinate table
\* a table is [columns |-> set of column names, rows |-> sequence of rows]
\* DataFrame.dropna(axis=0): the rows without a missing cell
RECURSIVE dropna(_, _)
dropna(rows, columns) ==
    IF rows = <<>> THEN <<>>
    ELSE IF columns \subseteq DOMAIN Head(rows)
         THEN <<Head(rows)>> \o dropna(Tail(rows), columns)
         ELSE dropna(Tail(rows), columns)

\* df[(df[lat] != "undefined") & (df[long] != "undefined")]
RECURSIVE Defined(_, _, _)
Defined(rows, lat, long) ==
    IF rows = <<>> THEN <<>>
    ELSE IF Head(rows)[lat] # UNDEFINED /\ Head(rows)[long] # UNDEFINED
         THEN <<Head(rows)>> \o Defined(Tail(rows), lat, long)
         ELSE Defined(Tail(rows), lat, long)

_map_locations(cfg, table) ==
    LET lat == cfg["lat_long_cols"][1]
        long == cfg["lat_long_cols"][2]
        dropped == IF Has(cfg, "cols_to_drop") THEN cfg["cols_to_drop"] ELSE {}
        columns == table.columns \ dropped
        projected == [i \in 1..Len(table.rows) |->
                         [c \in DOMAIN table.rows[i] \cap columns |-> table.rows[i][c]]]
    IN  IF ~(dropped \subseteq table.columns) THEN Err("KeyError")
        ELSE IF ~({lat, long} \subseteq columns) THEN Err("KeyError")
        ELSE Ok([columns |-> columns,
                 rows |-> Defined(dropna(projected, columns), lat, long)])

RECURSIVE DictLoop(_, _, _)
DictLoop(columns, rows, places_dict) ==
    IF rows = <<>> THEN Ok(places_dict)
    ELSE IF ~({"Ort", "Lat", "Len"} \subseteq columns) THEN Err("KeyError")
    ELSE LET row == Head(rows)
             lon == float(row["Len"])
             lat == float(row["Lat"])
         IN  IF ~lon.ok THEN lon
             ELSE IF ~lat.ok THEN lat
             ELSE DictLoop(columns, Tail(rows),
                           [place \in DOMAIN places_dict \cup {row["Ort"]} |->
                               IF place = row["Ort"] THEN <<lon.value, lat.value>>
                               ELSE places_dict[place]])

_dataframe_to_dict(df) == DictLoop(df.columns, df.rows, [place \in {} |-> <<>>])

_get_location_set(location_df) ==
    IF "Ort" \in location_df.columns
    THEN Ok({location_df.rows[i]["Ort"] : i \in 1..Len(location_df.rows)})
    ELSE Err("KeyError")

\* --------------------------------------------------- _make_line_strings
RECURSIVE TargetsLoop(_, _, _, _, _)
TargetsLoop(source, targets, locations, locations_map, list) ==
    IF targets = <<>> THEN Ok(list)
    ELSE LET target_name == CHOOSE key \in DOMAIN Head(targets) : TRUE
             weight == Head(targets)[target_name]
         IN  IF target_name \in locations
             THEN IF ~Has(locations_map, target_name) THEN Err("KeyError")
                  ELSE TargetsLoop(source, Tail(targets), locations, locations_map,
                           Append(list, Feature("LineString",
                                      <<locations_map[source], locations_map[target_name]>>,
                                      [source |-> source, target |-> target_name, weight |-> weight])))
             ELSE TargetsLoop(source, Tail(targets), locations, locations_map, list)

RECURSIVE SourcesLoop(_, _, _, _)
SourcesLoop(connections, locations, locations_map, list) ==
    IF connections = <<>> THEN Ok(list)
    ELSE LET source == Head(connections).source
         IN  IF source \in locations
             THEN IF ~Has(locations_map, source) THEN Err("KeyError")
                  ELSE LET inner == TargetsLoop(source, Head(connections).targets,
                                                locations, locations_map, list)
                       IN  IF inner.ok
                           THEN SourcesLoop(Tail(connections), locations, locations_map, inner.value)
                           ELSE inner
             ELSE SourcesLoop(Tail(connections), locations, locations_map, list)

_make_line_strings(cfg, edges, df, locations) ==
    LET locations_map == _dataframe_to_dict(df)
        connections == _get_connections(edges, ConfigFlag(cfg, "processed"))
    IN  IF ~locations_map.ok THEN locations_map
        ELSE IF ~connections.ok THEN connections
        ELSE SourcesLoop(connections.value, locations, locations_map.value, <<>>)

RECURSIVE AddAll(_, _)
AddAll(collection, features) ==
    IF features = <<>> THEN collection
    ELSE AddAll(add_feature(collection, Head(features)), Tail(features))

CreateFeaturesEdges(cfg, edges, df, locations) ==
    LET line_strings == _make_line_strings(cfg, edges, df, locations)
    IN  IF line_strings.ok THEN Ok(AddAll(FeatureCollection, line_strings.value))
        ELSE line_strings

\* ------------------------------------------------ files and user input
\* the graph file exists under one path only; a quoted path is unusable
\* (OSError); every other path does not exist (FileNotFoundError)
Paths == {"graph.cyjs", "missing.cyjs", "'graph.cyjs'"}
open(path) == CASE path = "graph.cyjs" -> Ok(cyto_doc)
                [] path = "'graph.cyjs'" -> Err("OSError")
                [] OTHER -> Err("FileNotFoundError")

\* ------------------------------------------------------------ __init__
\* the rest of __init__ once _read_data_cyto has opened cfg["cyto_path"];
\* a failed open leaves the constructor blocked in input()
AfterOpen(cfg) ==
    LET data == open(cfg["cyto_path"])
        df == _map_locations(cfg, coord_table)
        locations == _get_location_set(df.value)
    IN  IF ~data.ok
        THEN /\ phase' = "input"
             /\ UNCHANGED <<list_of_nodes, list_of_edges, coordinates_data, unique_locations>>
        ELSE /\ list_of_nodes' = data.value.elements.nodes
             /\ list_of_edges' = data.value.elements.edges
             /\ IF df.ok /\ locations.ok
                THEN /\ coordinates_data' = df.value
                     /\ unique_locations' = locations.value
                     /\ phase' = "ready"
                ELSE /\ phase' = "failed"
                     /\ UNCHANGED <<coordinates_data, unique_locations>>

\* GISManager(config), up to its return or its first input() prompt
__init__ ==
    /\ phase = "new"
    /\ attempts' = attempts + 1
    /\ AfterOpen(config)
    /\ UNCHANGED <<config, cyto_doc, coord_table, nodes_result, edges_result>>

\* input() returns a path: config is rewritten and _read_data_cyto recurses
_read_data_cyto_retry ==
    /\ phase = "input"
    /\ attempts < MaxAttempts
    /\ \E path \in Paths :
          /\ config' = [config EXCEPT !["cyto_path"] = path]
          /\ AfterOpen(config')
    /\ attempts' = attempts + 1
    /\ UNCHANGED <<cyto_doc, coord_table, nodes_result, edges_result>>

\* input() raises EOFError (no terminal): the constructor fails
_read_data_cyto_eof ==
    /\ phase = "input"
    /\ phase' = "failed"
    /\ UNCHANGED <<attempts, config, cyto_doc, coord_table, list_of_nodes, list_of_edges,
                   coordinates_data, unique_locations, nodes_result, edges_result>>

\* ------------------------------------------------------ public methods
\* create_features_nodes, had it removed the dropped keys from the node's own
\* data (node["data"].pop(key)) instead of copying the kept ones
create_features_nodes_popping ==
    /\ phase = "ready"
    /\ nodes_result' = CreateFeaturesNodes(config, list_of_nodes)
    /\ list_of_nodes' = [i \in 1..Len(list_of_nodes) |->
                            [data |-> IF ConfigList(config, "node_props_drop")
                                      THEN NodeProperties(config, list_of_nodes[i].data)
                                      ELSE list_of_nodes[i].data]]
    /\ UNCHANGED <<phase, attempts, config, cyto_doc, coord_table, list_of_edges,
                   coordinates_data, unique_locations, edges_result>>

create_features_nodes ==
    /\ phase = "ready"
    /\ nodes_result' = CreateFeaturesNodes(config, list_of_nodes)
    /\ UNCHANGED <<phase, attempts, config, cyto_doc, coord_table, list_of_nodes, list_of_edges,
                   coordinates_data, unique_locations, edges_result>>

create_features_edges ==
    /\ phase = "ready"
    /\ edges_result' = CreateFeaturesEdges(config, list_of_edges, coordinates_data, unique_locations)
    /\ UNCHANGED <<phase, attempts, config, cyto_doc, coord_table, list_of_nodes, list_of_edges,
                   coordinates_data, unique_locations, nodes_result>>

\* ------------------------------------------------------------- inputs
Dict(key, values) == {[k \in {key} |-> v] : v \in values}
Opt(key, values) == {[k \in {} |-> None]} \cup Dict(key, values)

LAT == <<"0", "7", ".", "5">>
LNG == <<"0", "2", "0">>
Identified == ("id" :> "A") @@ ("id_original" :> "B") @@ ("name" :> "N")

\* nodes with a latitude, with every combination of identifier fields;
\* identified nodes with a missing, empty, placeholder or zero latitude;
\* an identified node with a latitude and no longitude
NodeData ==
    {id @@ id_original @@ name @@ ("lat" :> LAT) @@ ("lng" :> LNG) :
        id \in Opt("id", {"A"}), id_original \in Opt("id_original", {"B"}), name \in Opt("name", {"N"})}
    \cup {Identified @@ lat @@ ("lng" :> LNG) : lat \in Opt("lat", {<<>>, UNDEFINED, <<"0">>})}
    \cup {Identified @@ ("lat" :> LAT)}
Nodes(S) == {[data |-> d] : d \in S}

Places == {"A", "B"}
Original(place) == IF place = "A" THEN "B" ELSE "A"
Connection(s, t) == ("source" :> s) @@ ("target" :> t) @@ ("source_original" :> Original(s))
                    @@ ("target_original" :> Original(t))
Without(d, key) == [k \in DOMAIN d \ {key} |-> d[k]]

\* well-formed edges between the places (self-loops included), whose original
\* identifiers differ from the direct ones, and edges lacking one field
EdgeData ==
    {Connection(s, t) @@ ("weight" :> 3) : s \in Places, t \in Places}
    \cup {Connection("A", "B")}
    \cup {Without(Connection("A", "B") @@ ("weight" :> 3), key) :
            key \in {"source", "source_original", "target_original"}}
Edges(S) == {[data |-> d] : d \in S}

Document(nodes, edges) == [elements |-> [nodes |-> nodes, edges |-> edges]]

\* the cell a complete row of the place holds in each coordinate column
Cell(place, column) ==
    CASE column = "Lat" -> IF place = "A" THEN <<"1", "0">> ELSE <<"3", "0">>
      [] column = "Len" -> IF place = "A" THEN <<"2", "0">> ELSE <<"4", "0">>
      [] column = "Y" -> IF place = "A" THEN <<"5", "0">> ELSE <<"7", "0">>
      [] column = "X" -> IF place = "A" THEN <<"6", "0">> ELSE <<"8", "0">>
      [] OTHER -> <<"x">>

\* the coordinate columns a table has: the conventional pair, another pair,
\* or both pairs
ColumnSets == {{"Lat", "Len"}, {"Y", "X"}, {"Lat", "Len", "Y", "X"}}
ColumnPairs(columns) == {<<"Lat", "Len">>, <<"Y", "X">>} \cap (columns \X columns)

CompleteRow(place, columns) == [c \in {"Ort", "GND"} \cup columns |-> IF c = "Ort" THEN place ELSE Cell(place, c)]
CompleteRows(columns, places) == [i \in 1..Len(places) |-> CompleteRow(places[i], columns)]

\* rows of a table: complete rows, rows with the placeholder in one
\* coordinate column, rows with one missing cell (NaN)
Rows(columns) ==
    UNION {{CompleteRow(p, columns)}
           \cup {[CompleteRow(p, columns) EXCEPT ![c] = UNDEFINED] : c \in columns}
           \cup {Without(CompleteRow(p, columns), c) : c \in {"GND"} \cup ({"Lat", "Y"} \cap columns)}
           : p \in Places}
Table(columns, rows) == [columns |-> {"Ort", "GND"} \cup columns, rows |-> rows]

Required == ("cyto_path" :> "graph.cyjs") @@ ("coord_path" :> "location_f.csv")
Processed == Opt("processed", {TRUE, FALSE})
NodePropsDrop == Opt("node_props_drop", {{}, {"lat", "lng"}, {"name", "id"}})
ColsToDrop == Opt("cols_to_drop", {{"GND"}})

Unconstructed ==
    /\ phase = "new"
    /\ attempts = 0
    /\ list_of_nodes = <<>>
    /\ list_of_edges = <<>>
    /\ coordinates_data = [columns |-> {}, rows |-> <<>>]
    /\ unique_locations = {}
    /\ nodes_result = NotCalled
    /\ edges_result = NotCalled

Edge(s, t) == [data |-> Connection(s, t) @@ ("weight" :> 3)]
Node(lat) == [data |-> Identified @@ ("lat" :> lat) @@ ("lng" :> LNG)]

\* every way construction can go, over a small graph and table
Init ==
    /\ Unconstructed
    /\ \E path \in Paths, processed \in Opt("processed", {TRUE}),
          drop \in Opt("node_props_drop", {{"lat", "lng"}}) :
          config = [Required EXCEPT !["cyto_path"] = path] @@ ("lat_long_cols" :> <<"Lat", "Len">>)
                   @@ processed @@ drop
    /\ \E nodes \in SeqsUpTo({Node(LAT), Node(UNDEFINED)}, MaxNodes),
          edges \in SeqsUpTo({Edge("A", "B"), Edge("B", "B")}, MaxEdges) :
          cyto_doc = Document(nodes, edges)
    /\ \E rows \in SeqsUpTo({CompleteRow("A", {"Lat", "Len"}),
                             [CompleteRow("B", {"Lat", "Len"}) EXCEPT !["Lat"] = UNDEFINED]}, MaxRows) :
          coord_table = Table({"Lat", "Len"}, rows)

\* every node list, over a fixed edge list and table
InitNodes ==
    /\ Unconstructed
    /\ \E processed \in Processed, drop \in NodePropsDrop :
          config = Required @@ ("lat_long_cols" :> <<"Lat", "Len">>) @@ processed @@ drop
    /\ \E nodes \in SeqsUpTo(Nodes(NodeData), MaxNodes) :
          cyto_doc = Document(nodes, <<Edge("A", "B")>>)
    /\ coord_table = Table({"Lat", "Len"}, CompleteRows({"Lat", "Len"}, <<"A", "B">>))

\* every edge list, over a fixed node list and three tables: both places
\* known, one place known, both known under other column names
InitEdges ==
    /\ Unconstructed
    /\ \E edges \in SeqsUpTo(Edges(EdgeData), MaxEdges) :
          cyto_doc = Document(<<Node(LAT)>>, edges)
    /\ \E processed \in Processed, names \in {<<"Lat", "Len">>, <<"Y", "X">>},
          places \in {<<"A", "B">>, <<"A">>} :
          /\ names = <<"Y", "X">> => places = <<"A", "B">>
          /\ config = Required @@ ("lat_long_cols" :> names) @@ processed
          /\ coord_table = Table({names[1], names[2]}, CompleteRows({names[1], names[2]}, places))

\* every table and every naming of a pair of its coordinate columns in the
\* config, over a fixed node list and edge list
InitTables ==
    /\ Unconstructed
    /\ cyto_doc = Document(<<Node(LAT)>>, <<Edge("A", "B"), Edge("B", "B")>>)
    /\ \E columns \in ColumnSets, drop \in ColsToDrop :
          /\ \E rows \in SeqsUpTo(Rows(columns), MaxRows) :
                coord_table = Table(columns, rows)
          /\ \E names \in ColumnPairs(columns) :
                config = Required @@ ("lat_long_cols" :> names) @@ drop

Next ==
    \/ __init__
    \/ _read_data_cyto_retry
    \/ _read_data_cyto_eof
    \/ create_features_nodes
    \/ create_features_edges

NextCalls ==
    \/ __init__
    \/ create_features_nodes
    \/ create_features_edges

Spec == Init /\ [][Next]_vars
SpecNodes == InitNodes /\ [][NextCalls]_vars
SpecEdges == InitEdges /\ [][NextCalls]_vars
SpecTables == InitTables /\ [][NextCalls]_vars

TypeOK ==
    /\ phase \in {"new", "input", "ready", "failed"}
    /\ attempts \in 0..MaxAttempts
    /\ unique_locations \subseteq Places

\* ===================================================== claims: vocabulary
Called(result) == result.ok \/ result.error # "NotCalled"
Returned(result) == result.ok
Count(seq, x) == Cardinality({i \in 1..Len(seq) : seq[i] = x})

\* a latitude that is present, non-empty and not the placeholder
Located(node) == "lat" \in DOMAIN node.data /\ node.data["lat"] \notin {<<>>, UNDEFINED}
RECURSIVE LocatedAmong(_)
LocatedAmong(nodes) ==
    IF nodes = <<>> THEN <<>>
    ELSE (IF Located(Head(nodes)) THEN <<Head(nodes)>> ELSE <<>>) \o LocatedAmong(Tail(nodes))
LocatedNodes == LocatedAmong(list_of_nodes)
\* the number a decimal string denotes
Decimal(string) == [int |-> IntValue(IntPart(string)), frac |-> rstrip(FracPart(string), "0")]
FlagSet == "processed" \in DOMAIN config /\ config["processed"] = TRUE
SelectedId == IF FlagSet THEN "id_original" ELSE "id"
\* a located node that carries the fields a Point needs besides lat
Identifiable(node) == {"lng", SelectedId} \subseteq DOMAIN node.data
DenyList == IF "node_props_drop" \in DOMAIN config THEN config["node_props_drop"] ELSE {}

\* C1: create_features_nodes completes for every node list and returns one
\* Point feature for each node whose latitude is present, non-empty and not
\* "undefined", in node order, and none for any other node, whatever the
\* coordinate table holds (stated for nodes that carry lng and the selected
\* identifier, whose absence is a missing required field).
C1_OnePointPerLocatedNode ==
    (Called(nodes_result) /\ \A i \in 1..Len(LocatedNodes) : Identifiable(LocatedNodes[i])) =>
        /\ Returned(nodes_result)
        /\ Len(nodes_result.value) = Len(LocatedNodes)
        /\ \A i \in 1..Len(LocatedNodes) :
              nodes_result.value[i].geometry =
                  [type |-> "Point",
                   coordinates |-> <<Decimal(LocatedNodes[i].data["lng"]),
                                     Decimal(LocatedNodes[i].data["lat"])>>]

\* C4: the properties of every emitted Point feature contain every field of
\* the node's data that is not in node_props_drop; with node_props_drop
\* absent or empty, every field of the node's data.
C4_PropertiesKeepNodeFields ==
    Returned(nodes_result) =>
        \A i \in 1..Len(nodes_result.value) :
            \A key \in DOMAIN LocatedNodes[i].data \ DenyList :
                /\ key \in DOMAIN nodes_result.value[i].properties
                /\ nodes_result.value[i].properties[key] = LocatedNodes[i].data[key]

\* C10: in every emitted Point feature, name is the node's identifier field
\* selected by the mode flag and connections is null, whatever the node's
\* other fields and whatever node_props_drop holds.
C10_NameIsIdentifier ==
    Returned(nodes_result) =>
        \A i \in 1..Len(nodes_result.value) :
            /\ nodes_result.value[i].properties["name"] =
                  LocatedNodes[i].data[SelectedId]
            /\ nodes_result.value[i].properties["connections"] = None

Names(result) == [i \in 1..Len(result.value) |-> result.value[i].properties["name"]]
Flipped == [key \in DOMAIN config \cup {"processed"} |->
               IF key = "processed" THEN ~FlagSet ELSE config[key]]
SelectedSource == IF FlagSet THEN "source_original" ELSE "source"
SelectedTarget == IF FlagSet THEN "target_original" ELSE "target"
WellFormed(edge) == {SelectedSource, SelectedTarget, "weight"} \subseteq DOMAIN edge.data
Resolved(edge) == [source |-> edge.data[SelectedSource], target |-> edge.data[SelectedTarget],
                   weight |-> edge.data["weight"]]
Matched(edge) == {Resolved(edge).source, Resolved(edge).target} \subseteq unique_locations

\* C5: the processed flag selects the identifier fields of both operations:
\* set, every LineString carries source_original/target_original of an input
\* edge and every Point is named by id_original; unset or absent, source/
\* target and id. Where the located nodes' two identifiers differ, the names
\* emitted under the flipped flag differ from the names emitted.
C5_FlagSelectsIdentifiers ==
    /\ Returned(edges_result) =>
          \A i \in 1..Len(edges_result.value) :
             \E j \in 1..Len(list_of_edges) :
                /\ WellFormed(list_of_edges[j])
                /\ edges_result.value[i].properties = Resolved(list_of_edges[j])
    /\ Returned(nodes_result) =>
          /\ \A i \in 1..Len(nodes_result.value) :
                nodes_result.value[i].properties["name"] = LocatedNodes[i].data[SelectedId]
          /\ LET flipped == CreateFeaturesNodes(Flipped, list_of_nodes)
             IN  (/\ flipped.ok
                  /\ LocatedNodes # <<>>
                  /\ \A i \in 1..Len(LocatedNodes) :
                        LocatedNodes[i].data["id"] # LocatedNodes[i].data["id_original"])
                 => Names(flipped) # Names(nodes_result)

\* C7: a record lacking a required field is fatal: create_features_edges
\* returns no collection when an edge lacks weight or the source or target
\* field selected by the mode flag, and create_features_nodes returns none
\* when a located node lacks the identifier field selected by the mode flag.
C7_MissingFieldIsFatal ==
    /\ (Called(edges_result) /\ \E j \in 1..Len(list_of_edges) : ~WellFormed(list_of_edges[j]))
          => ~Returned(edges_result)
    /\ (Called(nodes_result) /\ \E i \in 1..Len(LocatedNodes) : SelectedId \notin DOMAIN LocatedNodes[i].data)
          => ~Returned(nodes_result)

\* the coordinates the table gives a place: its longitude column and its
\* latitude column, as named by lat_long_cols, in the place's last row
LastRow(place) ==
    LET rows == coordinates_data.rows
        last == CHOOSE i \in 1..Len(rows) :
                    /\ rows[i]["Ort"] = place
                    /\ \A j \in (i + 1)..Len(rows) : rows[j]["Ort"] # place
    IN  rows[last]
Coordinates(place) == <<Decimal(LastRow(place)[config["lat_long_cols"][2]]),
                        Decimal(LastRow(place)[config["lat_long_cols"][1]])>>
LineOf(edge) == Feature("LineString",
                        <<Coordinates(Resolved(edge).source), Coordinates(Resolved(edge).target)>>,
                        Resolved(edge))
RECURSIVE MatchedAmong(_)
MatchedAmong(edges) ==
    IF edges = <<>> THEN <<>>
    ELSE (IF Matched(Head(edges)) THEN <<Head(edges)>> ELSE <<>>) \o MatchedAmong(Tail(edges))
MatchedEdges == MatchedAmong(list_of_edges)

\* C2: for an edge list whose edges carry their fields, create_features_edges
\* returns LineString features in one-to-one correspondence with the edges
\* whose resolved source and target are both in KnownPlaces (duplicates and
\* self-loops each counted), each with geometry [coordinates of source,
\* coordinates of target] and properties {source, target, weight}; the other
\* edges yield no feature and no error.
C2_OneLinePerMatchedEdge ==
    (Called(edges_result) /\ \A j \in 1..Len(list_of_edges) : WellFormed(list_of_edges[j])) =>
        /\ Returned(edges_result)
        /\ Len(edges_result.value) = Len(MatchedEdges)
        /\ \A j \in 1..Len(MatchedEdges) :
              Count(edges_result.value, LineOf(MatchedEdges[j]))
                 = Cardinality({k \in 1..Len(MatchedEdges) : LineOf(MatchedEdges[k]) = LineOf(MatchedEdges[j])})

\* C3: every coordinate pair emitted is [longitude, latitude]: a Point's is
\* [node lng, node lat]; a LineString's two are, for its source and for its
\* target, [the place's value in the longitude column, its value in the
\* latitude column], the columns being those lat_long_cols names.
C3_LongitudeFirst ==
    /\ Returned(nodes_result) =>
          \A i \in 1..Len(nodes_result.value) :
             nodes_result.value[i].geometry.coordinates =
                <<Decimal(LocatedNodes[i].data["lng"]), Decimal(LocatedNodes[i].data["lat"])>>
    /\ Returned(edges_result) =>
          \A i \in 1..Len(edges_result.value) :
             edges_result.value[i].geometry.coordinates =
                <<Coordinates(edges_result.value[i].properties.source),
                  Coordinates(edges_result.value[i].properties.target)>>

\* a row of the table as read that survives filtering: no missing value in a
\* column that is not dropped, no placeholder in a configured coordinate column
Remaining == coord_table.columns \ (IF "cols_to_drop" \in DOMAIN config THEN config["cols_to_drop"] ELSE {})
Survives(row) ==
    /\ Remaining \subseteq DOMAIN row
    /\ row[config["lat_long_cols"][1]] # UNDEFINED
    /\ row[config["lat_long_cols"][2]] # UNDEFINED
SurvivingPlaces == {coord_table.rows[i]["Ort"] : i \in {j \in 1..Len(coord_table.rows) : Survives(coord_table.rows[j])}}

\* C9: after construction, KnownPlaces and the coordinate map hold exactly the
\* places of the rows that survive filtering, KnownPlaces is the key set of
\* the coordinate map, and create_features_edges never fails looking up a
\* known place, for every table and every configured pair of column names.
C9_KnownPlacesAreMapped ==
    phase = "ready" =>
        /\ unique_locations = SurvivingPlaces
        /\ _dataframe_to_dict(coordinates_data).ok
        /\ DOMAIN _dataframe_to_dict(coordinates_data).value = unique_locations
        /\ Called(edges_result) => Returned(edges_result)

\* C8: when the graph file cannot be opened, construction aborts: one open
\* attempt, no prompt for another path, config["cyto_path"] never rewritten,
\* no constructed orchestrator.
C8_UnreadableGraphAborts ==
    [][/\ attempts' <= 1
       /\ phase' # "input"
       /\ config'["cyto_path"] = config["cyto_path"]
       /\ (phase = "new" /\ ~open(config["cyto_path"]).ok) => phase' = "failed"]_vars

\* C6: once constructed, no call of create_features_nodes or
\* create_features_edges changes config, the node list, the edge list, the
\* coordinate table or KnownPlaces, and every call returns what the same
\* operation returned before.
C6_CallsArePure ==
    [][phase = "ready" =>
          /\ UNCHANGED <<config, list_of_nodes, list_of_edges, coordinates_data, unique_locations>>
          /\ Called(nodes_result) => nodes_result' = nodes_result
          /\ Called(edges_result) => edges_result' = edges_result]_vars

\* both operations have been called, in a state where each returns features
C6_BothCalled ==
    /\ phase = "ready"
    /\ Returned(nodes_result) /\ nodes_result.value # <<>>
    /\ Returned(edges_result) /\ edges_result.value # <<>>
    /\ ConfigList(config, "node_props_drop")

\* the index create_features_edges builds from the edge list
ConnectionIndex == _get_connections(list_of_edges, FlagSet)
\* the source and the (target, weight) entry an edge resolves to; a field
\* that processed mode does not find resolves to null
FieldOf(edge, key) == IF key \in DOMAIN edge.data THEN edge.data[key] ELSE None
SourceOf(edge) == FieldOf(edge, SelectedSource)
EntryOf(edge) == [target |-> FieldOf(edge, SelectedTarget), weight |-> edge.data["weight"]]
\* the entries of the edges with the given source, in edge order
RECURSIVE EntriesFrom(_, _)
EntriesFrom(edges, source) ==
    IF edges = <<>> THEN <<>>
    ELSE (IF SourceOf(Head(edges)) = source THEN <<EntryOf(Head(edges))>> ELSE <<>>)
         \o EntriesFrom(Tail(edges), source)
\* the distinct sources, in order of first occurrence
SourcesInOrder(edges) ==
    LET first == {i \in 1..Len(edges) : \A j \in 1..(i - 1) : SourceOf(edges[j]) # SourceOf(edges[i])}
        RECURSIVE Ordered(_)
        Ordered(i) == IF i > Len(edges) THEN <<>>
                      ELSE (IF i \in first THEN <<SourceOf(edges[i])>> ELSE <<>>) \o Ordered(i + 1)
    IN  Ordered(1)
\* a single-entry {target: weight} dict as an entry
AsEntry(target_city) ==
    LET target == CHOOSE key \in DOMAIN target_city : TRUE
    IN  [target |-> target, weight |-> target_city[target]]
RECURSIVE TotalEntries(_)
TotalEntries(index) == IF index = <<>> THEN 0 ELSE Len(Head(index).targets) + TotalEntries(Tail(index))

\* C11: the index _get_connections builds drops no edge and keeps order: its
\* keys are the resolved sources in order of first occurrence, the list under
\* each key is the (target, weight) entries of the edges with that source in
\* edge order, duplicates kept, and the entries number as many as the edges.
C11_IndexKeepsEveryEdgeInOrder ==
    (Called(edges_result) /\ ConnectionIndex.ok) =>
        LET index == ConnectionIndex.value
        IN  /\ [i \in 1..Len(index) |-> index[i].source] = SourcesInOrder(list_of_edges)
            /\ \A i \in 1..Len(index) :
                  [k \in 1..Len(index[i].targets) |-> AsEntry(index[i].targets[k])]
                     = EntriesFrom(list_of_edges, index[i].source)
            /\ TotalEntries(index) = Len(list_of_edges)

\* an index built from three edges whose sources interleave (one source, then
\* another, then the first again), the repeated source with a repeated target
C11_InterleavedSources ==
    /\ Returned(edges_result)
    /\ ConnectionIndex.ok
    /\ Len(list_of_edges) = 3
    /\ SourceOf(list_of_edges[1]) = SourceOf(list_of_edges[3])
    /\ SourceOf(list_of_edges[1]) # SourceOf(list_of_edges[2])
    /\ EntryOf(list_of_edges[1]) = EntryOf(list_of_edges[3])
    /\ Len(ConnectionIndex.value) = 2

====
